---- MODULE Spec2Model ----
(***************************************************************************)
(* Charging scheduler of src/server.js: five parking spots share one      *)
(* movable charging cable.  The state is the ParkingSpot collection, the  *)
(* ChargingQueue collection and the pending setTimeout callbacks.  Each   *)
(* HTTP handler, timer callback and interval callback is one atomic step. *)
(*                                                                         *)
(* Time is counted in seconds.  chargingTime is in minutes as in the      *)
(* source; waitingTime (floating-point minutes in the source) is held in  *)
(* seconds, i.e. multiplied by 60, so that all arithmetic stays integral. *)
(* Status values:  "idle" = '空置中', "charging" = '充電中',               *)
(* "waiting" = '等待中', "finished" = '結束'.  A spot whose status is      *)
(* "charging" and whose startTime is unset is the spec's Moving state.    *)
(***************************************************************************)
EXTENDS Integers, Sequences, FiniteSets, Bags, TLC

VARIABLES spots, queue, timers, now, seq, calls

vars == <<spots, queue, timers, now, seq, calls>>

(* ---------------------------------------------------------------------- *)
(* Program constants                                                      *)
(* ---------------------------------------------------------------------- *)
CABLE_MOVING_TIME == 30

SecondsPerMinute == 60

ResetDelaySeconds == 5

FirstSpotId == 7

LastSpotId == 11

SpotIds == FirstSpotId .. LastSpotId

(* ---------------------------------------------------------------------- *)
(* Bounds of the model                                                    *)
(* ---------------------------------------------------------------------- *)
MaxTime == 100

MaxRequests == 4

Users == {"u1", "u2", "u3"}

\* The steps of the clock
TimeSteps == {ResetDelaySeconds, CABLE_MOVING_TIME}

(* ---------------------------------------------------------------------- *)
(* Optional values (null / undefined in the source)                       *)
(* ---------------------------------------------------------------------- *)
None == << >>

Some(v) == <<v>>

Val(x) == x[1]

NoUser == "null"

\* The requests that arrive (userId, spotId, chargingTime): u1 and u2 compete
\* for spot 7, u2 also asks for spot 8, u3 uses spot 9, also with
\* chargingTime 0 and without chargingTime
RequestInputs ==
    {<<"u1", 7, Some(1)>>,
     <<"u2", 7, Some(2)>>, <<"u2", 8, Some(2)>>,
     <<"u3", 9, Some(0)>>, <<"u3", 9, Some(1)>>, <<"u3", 9, None>>}

\* The cancellations that arrive (userId, spotId)
CancelInputs == {<<r[1], r[2]>> : r \in RequestInputs}

FreshSpot ==
    [status |-> "idle", startTime |-> None, chargingTime |-> None,
     waitingTime |-> None, userId |-> NoUser, moveStartTime |-> None]

Init ==
    /\ spots = [s \in SpotIds |-> FreshSpot]
    /\ queue = << >>
    /\ timers = EmptyBag
    /\ now = 0
    /\ seq = 0
    /\ calls = {}

(* ---------------------------------------------------------------------- *)
(* Queries on the two collections                                         *)
(* ---------------------------------------------------------------------- *)
Max(a, b) == IF a >= b THEN a ELSE b

\* ParkingSpot.findOne(filter) without a sort: the first matching document
\* in insertion order, which is ascending spotId (initParkingSpots inserts
\* 7..11 in order); 0 stands for "no document".
FindOne(S) == IF S = {} THEN 0 ELSE CHOOSE s \in S : \A x \in S : s <= x

\* Variant: a spot counts as holding the cable only once it draws power
ChargingSpotsStarted(sp) ==
    {s \in SpotIds : sp[s].status = "charging" /\ sp[s].startTime # None}

ChargingSpots(sp) == {s \in SpotIds : sp[s].status = "charging"}

\* null coerces to 0 in the source's arithmetic
ChargeSeconds(ct) == IF ct = None THEN 0 ELSE Val(ct) * SecondsPerMinute

RECURSIVE InsertSorted(_, _)
InsertSorted(e, s) ==
    IF s = << >> THEN <<e>>
    ELSE IF e.requestTime < Head(s).requestTime THEN <<e>> \o s
    ELSE <<Head(s)>> \o InsertSorted(e, Tail(s))

\* ChargingQueue.find().sort({ requestTime: 1 }); the queue variable keeps
\* the documents in insertion order, entries of equal requestTime stay in
\* that order
RECURSIVE SortByRequestTime(_)
SortByRequestTime(q) ==
    IF q = << >> THEN << >>
    ELSE InsertSorted(q[Len(q)], SortByRequestTime(SubSeq(q, 1, Len(q) - 1)))

RECURSIVE DeleteFirst(_, _, _)
DeleteFirst(q, u, s) ==
    IF q = << >> THEN << >>
    ELSE IF Head(q).userId = u /\ Head(q).spotId = s THEN Tail(q)
    ELSE <<Head(q)>> \o DeleteFirst(Tail(q), u, s)

\* ChargingQueue.deleteOne({ userId, spotId })
DeleteOne(q, u, s) == DeleteFirst(q, u, s)

\* ChargingQueue.deleteOne({ _id })
DeleteById(q, id) == SelectSeq(q, LAMBDA e : e.id # id)

(* ---------------------------------------------------------------------- *)
(* Wait-time estimation                                                   *)
(* ---------------------------------------------------------------------- *)
\* Remaining time, in seconds, of the spot c that holds the cable at time t
CableRemaining(c, t) ==
    LET moving == IF c.moveStartTime # None /\ c.startTime = None
                  THEN Max(0, CABLE_MOVING_TIME - (t - Val(c.moveStartTime)))
                  ELSE 0
        charge == IF c.startTime # None
                  THEN Max(0, ChargeSeconds(c.chargingTime) - (t - Val(c.startTime)))
                  ELSE ChargeSeconds(c.chargingTime)
    IN  moving + charge

\* The loop of updateWaitingTimes over the sorted queue sq from index i on
RECURSIVE WalkQueue(_, _, _, _)
WalkQueue(sp, sq, i, cumulativeTime) ==
    IF i > Len(sq) THEN sp
    ELSE LET sid == sq[i].spotId IN
         IF sp[sid].status = "waiting"
         THEN WalkQueue([sp EXCEPT ![sid].waitingTime = Some(cumulativeTime)],
                        sq, i + 1,
                        cumulativeTime + ChargeSeconds(sp[sid].chargingTime)
                                       + CABLE_MOVING_TIME)
         ELSE WalkQueue(sp, sq, i + 1, cumulativeTime)

\* Variant: the stored estimates are never refreshed
keepWaitingTimes(sp, q, t) == sp

\* Variant of the loop: every spot with a queue item is written, whatever its
\* status
RECURSIVE WalkEveryItem(_, _, _, _)
WalkEveryItem(sp, sq, i, cumulativeTime) ==
    IF i > Len(sq) THEN sp
    ELSE LET sid == sq[i].spotId IN
         WalkEveryItem([sp EXCEPT ![sid].waitingTime = Some(cumulativeTime)],
                       sq, i + 1,
                       cumulativeTime + ChargeSeconds(sp[sid].chargingTime)
                                      + CABLE_MOVING_TIME)

updateEveryItem(sp, q, t) ==
    LET chargingSpot == FindOne(ChargingSpots(sp)) IN
    IF chargingSpot = 0 THEN sp
    ELSE WalkEveryItem(sp, SortByRequestTime(q), 1, CableRemaining(sp[chargingSpot], t))

updateWaitingTimes(sp, q, t) ==
    LET chargingSpot == FindOne(ChargingSpots(sp)) IN
    IF chargingSpot = 0 THEN sp
    ELSE WalkQueue(sp, SortByRequestTime(q), 1, CableRemaining(sp[chargingSpot], t))

\* The provisional totalWaitingTime the request handler stores before it
\* appends the queue entry
RECURSIVE SumWaiting(_, _, _)
SumWaiting(sp, sq, i) ==
    IF i > Len(sq) THEN 0
    ELSE (IF sp[sq[i].spotId].status = "waiting"
          THEN ChargeSeconds(sp[sq[i].spotId].chargingTime) + CABLE_MOVING_TIME
          ELSE 0) + SumWaiting(sp, sq, i + 1)

TotalWaitingTime(sp, q, chargingSpot, t) ==
    CableRemaining(sp[chargingSpot], t) + SumWaiting(sp, SortByRequestTime(q), 1)

(* ---------------------------------------------------------------------- *)
(* Promotion of the queue head                                            *)
(* ---------------------------------------------------------------------- *)
\* A pending setTimeout callback.  The field cancelled is a history field: no
\* handler reads it; it records that the dispatch which scheduled the callback
\* has been cancelled since (the source never calls clearTimeout).
Timer(kind, s, entry, t) ==
    [kind |-> kind, spotId |-> s, entry |-> entry, due |-> t + CABLE_MOVING_TIME,
     cancelled |-> FALSE]

Cancelled(tm, s) == IF tm.spotId = s THEN [tm EXCEPT !.cancelled = TRUE] ELSE tm

\* The pending callbacks after the request on spot s has been cancelled
MarkCancelled(tms, s) ==
    LET S == BagToSet(tms)
        count(x) == IF x \in S THEN tms[x] ELSE 0
    IN  [y \in {Cancelled(x, s) : x \in S} |->
            IF y.spotId = s
            THEN count(y) + count([y EXCEPT !.cancelled = FALSE])
            ELSE count(y)]

\* Variant: the newest entry is served first
NewestInQueue(q) == SortByRequestTime(q)[Len(q)]

NextInQueue(q) == Head(SortByRequestTime(q))

processNextChargingRequest(sp, q, tm, t) ==
    IF q = << >> THEN [spots |-> sp, timers |-> tm]
    ELSE LET nextInQueue == NextInQueue(q)
             sid == nextInQueue.spotId
         IN  IF sp[sid].status = "waiting"
             THEN [spots  |-> [sp EXCEPT ![sid].status = "charging",
                                         ![sid].moveStartTime = Some(t)],
                   timers |-> tm (+) SetToBag({Timer("promote", sid, nextInQueue.id, t)})]
             ELSE [spots |-> sp, timers |-> tm]

(* ---------------------------------------------------------------------- *)
(* POST /api/request-charging                                             *)
(* ---------------------------------------------------------------------- *)
\* What a handler does: the status code and kind of its response, and the
\* collections and pending timeouts it leaves behind
Outcome(code, result, sp, q, tm) ==
    [code |-> code, result |-> result, spots |-> sp, queue |-> q, timers |-> tm]

ExistingRequest(sp, u) ==
    {x \in SpotIds : sp[x].userId = u /\ sp[x].status \in {"charging", "waiting"}}

\* Variant: the spot draws power as soon as it is dispatched
DispatchCharging(sp, u, s, c, t) ==
    [sp EXCEPT ![s].status = "charging",
               ![s].moveStartTime = Some(t),
               ![s].startTime = Some(t),
               ![s].chargingTime = c,
               ![s].userId = u]

Dispatch(sp, u, s, c, t) ==
    [sp EXCEPT ![s].status = "charging",
               ![s].moveStartTime = Some(t),
               ![s].chargingTime = c,
               ![s].userId = u]

\* Variant: the waiting spot does not record its user
EnqueueUnowned(sp, q, u, s, c, chargingSpot, t) ==
    [sp EXCEPT ![s].status = "waiting",
               ![s].chargingTime = c,
               ![s].waitingTime = Some(TotalWaitingTime(sp, q, chargingSpot, t))]

Enqueue(sp, q, u, s, c, chargingSpot, t) ==
    [sp EXCEPT ![s].status = "waiting",
               ![s].chargingTime = c,
               ![s].userId = u,
               ![s].waitingTime = Some(TotalWaitingTime(sp, q, chargingSpot, t))]

QueueEntry(id, u, s, c, t) ==
    [id |-> id, userId |-> u, spotId |-> s, chargingTime |-> Val(c), requestTime |-> t]

\* !spotId || chargingTime === undefined || !userId
MissingParameters(u, s, c) == s = 0 \/ c = None \/ u = ""

\* Variant: only spots with a request in progress are refused
SpotNotActive(sp, s) == sp[s].status \notin {"charging", "waiting"}

SpotAvailable(sp, s) == sp[s].status = "idle"

\* The handler run on collections sp, q and pending timeouts tm at time t;
\* id is the _id a new queue entry gets
requestCharging(sp, q, tm, t, id, u, s, c) ==
    LET chargingSpot == FindOne(ChargingSpots(sp)) IN
    IF MissingParameters(u, s, c)
    THEN Outcome(400, "InvalidArgument", sp, q, tm)
    ELSE IF ExistingRequest(sp, u) # {}
    THEN Outcome(403, "DuplicateRequest", sp, q, tm)
    ELSE IF s \notin SpotIds
    THEN Outcome(404, "NotFound", sp, q, tm)
    ELSE IF ~SpotAvailable(sp, s)
    THEN Outcome(403, "SpotUnavailable", sp, q, tm)
    ELSE IF chargingSpot = 0
    THEN Outcome(200, "Dispatched", Dispatch(sp, u, s, c, t), q,
                 tm (+) SetToBag({Timer("request", s, 0, t)}))
    ELSE LET q1 == Append(q, QueueEntry(id, u, s, c, t)) IN
         Outcome(200, "Queued",
                 updateWaitingTimes(Enqueue(sp, q, u, s, c, chargingSpot, t), q1, t),
                 q1, tm)

\* A request that is answered with an error leaves everything as it was and
\* is no step
RequestCharging(u, s, c) ==
    LET out == requestCharging(spots, queue, timers, now, seq + 1, u, s, c) IN
    /\ out.code = 200
    /\ seq < MaxRequests
    /\ spots' = out.spots
    /\ queue' = out.queue
    /\ timers' = out.timers
    /\ seq' = seq + 1
    /\ UNCHANGED <<now, calls>>

(* ---------------------------------------------------------------------- *)
(* POST /api/cancel-charging                                              *)
(* ---------------------------------------------------------------------- *)
\* ParkingSpot.findOne({ spotId, userId }): no condition on the status
FindRequest(sp, u, s) == s \in SpotIds /\ sp[s].userId = u

cancelCharging(sp, q, tm, t, u, s) ==
    IF s = 0 \/ u = ""
    THEN Outcome(400, "InvalidArgument", sp, q, tm)
    ELSE IF ~FindRequest(sp, u, s)
    THEN Outcome(404, "NotFound", sp, q, tm)
    ELSE LET oldStatus == sp[s].status
             reset == [sp EXCEPT ![s] = FreshSpot]
             q1 == DeleteOne(q, u, s)
             tm1 == MarkCancelled(tm, s)
             pn == processNextChargingRequest(reset, q1, tm1, t)
         IN  IF oldStatus = "charging"
             THEN Outcome(200, "Cancelled", pn.spots, q1, pn.timers)
             ELSE IF oldStatus = "waiting"
             THEN Outcome(200, "Cancelled", updateWaitingTimes(reset, q1, t), q1, tm1)
             ELSE Outcome(200, "Cancelled", reset, q1, tm1)

CancelCharging(u, s) ==
    LET out == cancelCharging(spots, queue, timers, now, u, s) IN
    /\ out.code = 200
    /\ spots' = out.spots
    /\ queue' = out.queue
    /\ timers' = out.timers
    /\ UNCHANGED <<now, seq, calls>>

(* ---------------------------------------------------------------------- *)
(* setTimeout callbacks (cable arrival)                                   *)
(* ---------------------------------------------------------------------- *)
StillMoving(sp, s) == sp[s].status = "charging" /\ sp[s].startTime = None

CableArrived(tm) ==
    /\ BagIn(tm, timers)
    /\ tm.due <= now
    /\ timers' = timers (-) SetToBag({tm})
    /\ UNCHANGED <<now, seq, calls>>
    /\ IF StillMoving(spots, tm.spotId)
       THEN LET started == [spots EXCEPT ![tm.spotId].startTime = Some(now)] IN
            IF tm.kind = "promote"
            THEN /\ queue' = DeleteById(queue, tm.entry)
                 /\ spots' = updateWaitingTimes(started, queue', now)
            ELSE /\ spots' = started
                 /\ UNCHANGED queue
       ELSE UNCHANGED <<spots, queue>>

(* ---------------------------------------------------------------------- *)
(* setInterval callbacks (every second)                                   *)
(* ---------------------------------------------------------------------- *)
\* Variant: the spot is reset as soon as the delay has elapsed
ResetDueAtDelay(spot, t) ==
    \/ spot.startTime = None
    \/ /\ spot.chargingTime # None
       /\ t - (Val(spot.startTime) + ChargeSeconds(spot.chargingTime)) >= ResetDelaySeconds

ResetDue(spot, t) ==
    \/ spot.startTime = None
    \/ /\ spot.chargingTime # None
       /\ t - (Val(spot.startTime) + ChargeSeconds(spot.chargingTime)) > ResetDelaySeconds

\* Variant: the reset changes the status and keeps the other fields
ResetStatusOnly(spot) == [spot EXCEPT !.status = "idle"]

ResetFinished(spot) ==
    [spot EXCEPT !.status = "idle", !.startTime = None, !.chargingTime = None,
                 !.userId = NoUser, !.moveStartTime = None]

checkAndResetFinishedSpots ==
    /\ spots' = [s \in SpotIds |->
                    IF spots[s].status = "finished" /\ ResetDue(spots[s], now)
                    THEN ResetFinished(spots[s]) ELSE spots[s]]
    /\ UNCHANGED <<queue, timers, now, seq, calls>>

ChargeComplete(spot, t) ==
    /\ spot.chargingTime # None
    /\ Val(spot.chargingTime) # 0
    /\ t - Val(spot.startTime) >= ChargeSeconds(spot.chargingTime)

checkChargingStatus ==
    LET chargingSpot == FindOne({s \in SpotIds : /\ spots[s].status = "charging"
                                                 /\ spots[s].startTime # None})
        done == [spots EXCEPT ![chargingSpot].status = "finished"]
        pn == processNextChargingRequest(done, queue, timers, now)
    IN  /\ IF chargingSpot # 0 /\ ChargeComplete(spots[chargingSpot], now)
           THEN spots' = pn.spots /\ timers' = pn.timers
           ELSE UNCHANGED <<spots, timers>>
        /\ UNCHANGED <<queue, now, seq, calls>>

(* ---------------------------------------------------------------------- *)
(* Passage of time                                                        *)
(* ---------------------------------------------------------------------- *)
\* The interval callbacks have nothing left to do at the current time
TicksIdle ==
    /\ \A s \in SpotIds : ~(spots[s].status = "finished" /\ ResetDue(spots[s], now))
    /\ \A s \in SpotIds : ~(/\ spots[s].status = "charging"
                            /\ spots[s].startTime # None
                            /\ ChargeComplete(spots[s], now))

Min(S) == CHOOSE x \in S : \A y \in S : x <= y

\* The clock moves on by one cable move, or by one reset delay while a
\* finished spot awaits its reset, and never past a pending timeout, which
\* runs when it is due.  The interval callbacks have a period of one second:
\* they have run before the clock moves on.
Advance(d) ==
    /\ d = ResetDelaySeconds => \E s \in SpotIds : spots[s].status = "finished"
    /\ TicksIdle
    /\ \A tm \in BagToSet(timers) : tm.due > now
    /\ now' = Min({now + d} \cup {tm.due : tm \in BagToSet(timers)})
    /\ now' <= MaxTime
    /\ UNCHANGED <<spots, queue, timers, seq, calls>>

Next ==
    \/ \E r \in RequestInputs : RequestCharging(r[1], r[2], r[3])
    \/ \E r \in CancelInputs : CancelCharging(r[1], r[2])
    \/ \E tm \in BagToSet(timers) : CableArrived(tm)
    \/ checkAndResetFinishedSpots
    \/ checkChargingStatus
    \/ \E d \in TimeSteps : Advance(d)

Spec == Init /\ [][Next]_vars

(* ---------------------------------------------------------------------- *)
(* Timeouts and intervals that keep firing                                *)
(* ---------------------------------------------------------------------- *)
\* Something is left that the passage of time will change: a timeout is
\* pending, a charge the charge check can complete is running, or a
\* finished spot awaits its reset
TimeMatters ==
    \/ timers # EmptyBag
    \/ \E s \in SpotIds : /\ spots[s].status = "charging"
                          /\ spots[s].startTime # None
                          /\ spots[s].chargingTime # None
                          /\ Val(spots[s].chargingTime) # 0
    \/ \E s \in SpotIds : spots[s].status = "finished"

\* The clock moves on as Advance does, without an end of time, for as long
\* as the passage of time matters
AdvanceFair(d) ==
    /\ TimeMatters
    /\ d = ResetDelaySeconds => \E s \in SpotIds : spots[s].status = "finished"
    /\ TicksIdle
    /\ \A tm \in BagToSet(timers) : tm.due > now
    /\ now' = Min({now + d} \cup {tm.due : tm \in BagToSet(timers)})
    /\ UNCHANGED <<spots, queue, timers, seq, calls>>

\* The clients send their requests and cancellations in the first
\* LastArrival seconds
LastArrival == 30

NextFair ==
    \/ \E r \in RequestInputs : now <= LastArrival /\ RequestCharging(r[1], r[2], r[3])
    \/ \E r \in CancelInputs : now <= LastArrival /\ CancelCharging(r[1], r[2])
    \/ \E tm \in BagToSet(timers) : CableArrived(tm)
    \/ checkAndResetFinishedSpots
    \/ checkChargingStatus
    \/ \E d \in TimeSteps : AdvanceFair(d)

\* Every pending timeout runs, both intervals keep firing and the clock
\* keeps running; requests and cancellations arrive when clients send them
SpecFair ==
    /\ Init
    /\ [][NextFair]_vars
    /\ WF_vars(\E tm \in BagToSet(timers) : CableArrived(tm))
    /\ WF_vars(checkAndResetFinishedSpots)
    /\ WF_vars(checkChargingStatus)
    /\ WF_vars(\E d \in TimeSteps : AdvanceFair(d))

(* ---------------------------------------------------------------------- *)
(* Handlers that overlap                                                  *)
(* ---------------------------------------------------------------------- *)
\* The handlers are async functions: at each await another handler may run.
\* Here a handler is cut once, between its reads and its writes (request) or
\* between its own writes and the promotion it triggers (cancel); calls holds
\* the handlers that have run their first part.
MaxInFlight == 2

OverlapRequests == {<<"u1", 7, Some(1)>>, <<"u2", 8, Some(2)>>}

\* Lines 601-641: validation, existingRequest, spot and chargingSpot are read
RequestRead(u, s, c) ==
    /\ Cardinality(calls) < MaxInFlight
    /\ seq < MaxRequests
    /\ ~MissingParameters(u, s, c)
    /\ ExistingRequest(spots, u) = {}
    /\ s \in SpotIds
    /\ SpotAvailable(spots, s)
    /\ calls' = calls \cup
                 {[op |-> "request", userId |-> u, spotId |-> s, chargingTime |-> c,
                   holder |-> IF ChargingSpots(spots) = {} THEN None
                              ELSE Some(spots[FindOne(ChargingSpots(spots))])]}
    /\ UNCHANGED <<spots, queue, timers, now, seq>>

\* Lines 643-736: the spot read before is saved as dispatched, or as waiting
\* with an estimate computed from the chargingSpot document read before
RequestWrite(call) ==
    /\ call \in calls
    /\ call.op = "request"
    /\ calls' = calls \ {call}
    /\ seq' = seq + 1
    /\ UNCHANGED now
    /\ IF call.holder = None
       THEN /\ spots' = Dispatch(spots, call.userId, call.spotId, call.chargingTime, now)
            /\ timers' = timers (+) SetToBag({Timer("request", call.spotId, 0, now)})
            /\ UNCHANGED queue
       ELSE LET totalWaitingTime ==
                    CableRemaining(Val(call.holder), now)
                    + SumWaiting(spots, SortByRequestTime(queue), 1)
                saved == [spots EXCEPT ![call.spotId].status = "waiting",
                                       ![call.spotId].chargingTime = call.chargingTime,
                                       ![call.spotId].userId = call.userId,
                                       ![call.spotId].waitingTime = Some(totalWaitingTime)]
            IN  /\ queue' = Append(queue, QueueEntry(seq + 1, call.userId, call.spotId,
                                                     call.chargingTime, now))
                /\ spots' = updateWaitingTimes(saved, queue', now)
                /\ UNCHANGED timers

\* Lines 758-777: the spot is reset and its queue entry deleted
CancelReset(u, s) ==
    /\ Cardinality(calls) < MaxInFlight
    /\ FindRequest(spots, u, s)
    /\ calls' = calls \cup {[op |-> "cancel", oldStatus |-> spots[s].status]}
    /\ spots' = [spots EXCEPT ![s] = FreshSpot]
    /\ queue' = DeleteOne(queue, u, s)
    /\ timers' = MarkCancelled(timers, s)
    /\ UNCHANGED <<now, seq>>

\* Lines 779-783: the promotion or the recomputation after the reset
CancelPromote(call) ==
    /\ call \in calls
    /\ call.op = "cancel"
    /\ calls' = calls \ {call}
    /\ UNCHANGED <<queue, now, seq>>
    /\ IF call.oldStatus = "charging"
       THEN LET pn == processNextChargingRequest(spots, queue, timers, now)
            IN  spots' = pn.spots /\ timers' = pn.timers
       ELSE IF call.oldStatus = "waiting"
       THEN spots' = updateWaitingTimes(spots, queue, now) /\ UNCHANGED timers
       ELSE UNCHANGED <<spots, timers>>

\* An await is a database round trip: the clock does not move while a handler
\* is between its parts
NextOverlap ==
    \/ \E r \in OverlapRequests : RequestRead(r[1], r[2], r[3])
    \/ \E call \in calls : RequestWrite(call)
    \/ \E r \in OverlapRequests : CancelReset(r[1], r[2])
    \/ \E call \in calls : CancelPromote(call)
    \/ \E tm \in BagToSet(timers) : CableArrived(tm)
    \/ checkAndResetFinishedSpots
    \/ checkChargingStatus
    \/ \E d \in TimeSteps : calls = {} /\ Advance(d)

SpecOverlap == Init /\ [][NextOverlap]_vars

(* ====================================================================== *)
(* Properties                                                             *)
(* ====================================================================== *)
Moving(sp, s) == sp[s].status = "charging" /\ sp[s].startTime = None

Charging(sp, s) == sp[s].status = "charging" /\ sp[s].startTime # None

Waiting(sp, s) == sp[s].status = "waiting"

\* The parameters a client may send with a request
AnyChargingTime == {Some(d) : d \in {-1, 0, 1, 2}}

RequestOutcome(u, s, c) == requestCharging(spots, queue, timers, now, seq + 1, u, s, c)

CancelOutcome(u, s) == cancelCharging(spots, queue, timers, now, u, s)

Rejected(out) == out.spots = spots /\ out.queue = queue /\ out.timers = timers

\* C1: in every reachable state at most one spot is Moving and at most one
\* spot is Charging.
C1_SingleCable ==
    /\ Cardinality({s \in SpotIds : Moving(spots, s)}) <= 1
    /\ Cardinality({s \in SpotIds : Charging(spots, s)}) <= 1

\* Three requests contend for the cable: one holds it, two wait
C1_Witness ==
    /\ \E s \in SpotIds : spots[s].status = "charging"
    /\ Cardinality({s \in SpotIds : Waiting(spots, s)}) = 2

\* C2: whenever a waiting spot is promoted to Moving, it is the target of the
\* queue entry with the earliest requestTime in the queue at that moment (the
\* first such entry in insertion order): no later entry is promoted while an
\* earlier one is queued.
C2_PromotesEarliest ==
    [][\A s \in SpotIds :
          (Waiting(spots, s) /\ spots'[s].status = "charging") =>
              \E i \in DOMAIN queue' :
                  /\ queue'[i].spotId = s
                  /\ \A j \in DOMAIN queue' :
                        \/ queue'[i].requestTime < queue'[j].requestTime
                        \/ (queue'[i].requestTime = queue'[j].requestTime /\ i <= j)]_vars

\* A promoted spot is Moving while a later entry still waits behind it
C2_Witness ==
    \E i, j \in DOMAIN queue :
        /\ i < j
        /\ queue[i].requestTime < queue[j].requestTime
        /\ Moving(spots, queue[i].spotId)
        /\ Waiting(spots, queue[j].spotId)

\* An accepted request is the only step that raises seq, and it takes the
\* requested spot out of the idle status: the first conjuncts of the
\* antecedents below follow from RequestCharging(u, s, c) and only spare its
\* evaluation on the other steps.

\* C3: a request for an idle spot by a user without an outstanding request,
\* while no spot is Moving or Charging, puts the spot in Moving with
\* moveStartTime = now, userId and chargingTime as requested and startTime
\* unset, and creates no queue entry.
C3_DispatchWhenFree ==
    [][\A u \in Users, s \in SpotIds, c \in AnyChargingTime :
          (/\ seq' = seq + 1
           /\ spots[s].status = "idle"
           /\ spots'[s].status # "idle"
           /\ ExistingRequest(spots, u) = {}
           /\ \A x \in SpotIds : ~Moving(spots, x) /\ ~Charging(spots, x)
           /\ RequestCharging(u, s, c))
          => /\ Moving(spots', s)
             /\ spots'[s].moveStartTime = Some(now)
             /\ spots'[s].userId = u
             /\ spots'[s].chargingTime = c
             /\ spots'[s].startTime = None
             /\ queue' = queue]_vars

\* A spot was dispatched directly (the queue is empty) after time has passed
C3_Witness ==
    /\ now > 0
    /\ queue = << >>
    /\ \E s \in SpotIds : Moving(spots, s) /\ spots[s].moveStartTime = Some(now)

\* C4: a request for an idle spot while some spot is Moving or Charging does
\* not dispatch the cable: the spot becomes waiting with userId and
\* chargingTime recorded, exactly one entry for it is appended at the tail of
\* the queue, no timeout is scheduled and the spot holding the cable is left
\* unchanged.
C4_QueuedWhenBusy ==
    [][\A u \in Users, s \in SpotIds, c \in AnyChargingTime :
          (/\ seq' = seq + 1
           /\ spots[s].status = "idle"
           /\ spots'[s].status # "idle"
           /\ ExistingRequest(spots, u) = {}
           /\ \E x \in SpotIds : Moving(spots, x) \/ Charging(spots, x)
           /\ RequestCharging(u, s, c))
          => /\ Waiting(spots', s)
             /\ spots'[s].userId = u
             /\ spots'[s].chargingTime = c
             /\ Len(queue') = Len(queue) + 1
             /\ SubSeq(queue', 1, Len(queue)) = queue
             /\ queue'[Len(queue')].userId = u
             /\ queue'[Len(queue')].spotId = s
             /\ queue'[Len(queue')].chargingTime = Val(c)
             /\ queue'[Len(queue')].requestTime = now
             /\ \A j \in DOMAIN queue : queue[j].requestTime <= now
             /\ timers' = timers
             /\ \A x \in SpotIds : spots[x].status = "charging" => spots'[x] = spots[x]]_vars

\* A request was queued behind another one: its entry is the last of two
C4_Witness ==
    /\ Len(queue) >= 2
    /\ queue[Len(queue)].requestTime = now
    /\ now > 0
    /\ Waiting(spots, queue[Len(queue)].spotId)
    /\ spots[queue[Len(queue)].spotId].userId = queue[Len(queue)].userId

\* C5: a request by a user who owns an active spot (Moving, Charging or
\* waiting) or a queue entry is rejected with DuplicateRequest and changes
\* nothing, and no user has more than one outstanding request.
C5_DuplicateRejected ==
    /\ \A u \in Users :
          (ExistingRequest(spots, u) # {} \/ \E i \in DOMAIN queue : queue[i].userId = u)
          => \A s \in SpotIds, c \in AnyChargingTime :
                /\ RequestOutcome(u, s, c).result = "DuplicateRequest"
                /\ Rejected(RequestOutcome(u, s, c))
    /\ \A u \in Users : Cardinality(ExistingRequest(spots, u)) <= 1

\* C6 as stated: a request for a spot that is not idle (Moving, Charging,
\* Finished or waiting) is rejected with SpotUnavailable and changes no spot,
\* no queue entry and no timeout, whoever sends it.
C6_AnyRequester ==
    \A u \in Users, s \in SpotIds, c \in AnyChargingTime :
        spots[s].status # "idle"
        => /\ RequestOutcome(u, s, c).result = "SpotUnavailable"
           /\ Rejected(RequestOutcome(u, s, c))

\* C6: a request with all parameters present for a spot that is not idle
\* (Moving, Charging, Finished or waiting), by a user who owns no Moving,
\* Charging or waiting spot, is rejected with SpotUnavailable and changes no
\* spot, no queue entry and no timeout; a user who owns such a spot is
\* rejected with DuplicateRequest before the spot is looked at.
C6_SpotUnavailable ==
    \A u \in Users :
        IF ExistingRequest(spots, u) = {}
        THEN \A s \in SpotIds :
                spots[s].status # "idle"
                => \A c \in AnyChargingTime :
                      RequestOutcome(u, s, c)
                        = Outcome(403, "SpotUnavailable", spots, queue, timers)
        ELSE \A s \in SpotIds, c \in AnyChargingTime :
                RequestOutcome(u, s, c)
                  = Outcome(403, "DuplicateRequest", spots, queue, timers)

\* Spots in each of the non-idle states are refused to a user without a request
C6_Witness ==
    \E u \in Users, s1, s2 \in SpotIds :
        /\ ExistingRequest(spots, u) = {}
        /\ spots[s1].status = "finished"
        /\ Moving(spots, s2)
        /\ RequestOutcome(u, s1, Some(1)).result = "SpotUnavailable"
        /\ RequestOutcome(u, s2, Some(1)).result = "SpotUnavailable"

\* C7: a request with a non-positive chargingTime is rejected with
\* InvalidArgument and changes no spot and no queue entry.
C7_NonPositiveRejected ==
    \A u \in Users, s \in SpotIds, c \in AnyChargingTime :
        Val(c) <= 0
        => /\ RequestOutcome(u, s, c).result = "InvalidArgument"
           /\ Rejected(RequestOutcome(u, s, c))

\* C8: a cancellation succeeds only if the spot is owned by the user and is
\* Moving, Charging or waiting; otherwise (also for a Finished spot still
\* owned by the user) it fails with NotFound and changes nothing.
C8_CancelOnlyActive ==
    \A u \in Users, s \in SpotIds :
        IF spots[s].userId = u /\ spots[s].status \in {"charging", "waiting"}
        THEN CancelOutcome(u, s).result = "Cancelled"
        ELSE CancelOutcome(u, s).result = "NotFound" /\ Rejected(CancelOutcome(u, s))

\* The queue a cancellation of (u, s) leaves for promotion
RemainingQueue(u, s) == SortByRequestTime(DeleteOne(queue, u, s))

\* C9: when a cancellation frees the cable (the spot was Moving or Charging)
\* and requests are queued, then in the same step the cancelled spot is idle
\* with all fields cleared and the target spot of the head entry is Moving
\* with moveStartTime = now.
C9_CancelPromotesHead ==
    [][\A u \in Users, s \in SpotIds :
          (/\ spots[s].userId = u
           /\ spots[s].status = "charging"
           /\ RemainingQueue(u, s) # << >>
           /\ CancelCharging(u, s))
          => /\ spots'[s] = FreshSpot
             /\ Moving(spots', Head(RemainingQueue(u, s)).spotId)
             /\ spots'[Head(RemainingQueue(u, s)).spotId].moveStartTime = Some(now)]_vars

\* The first queue entry of user u for spot s (0: none), the one
\* deleteOne({ userId, spotId }) removes
FirstEntry(u, s) ==
    FindOne({i \in DOMAIN queue : queue[i].userId = u /\ queue[i].spotId = s})

\* The last queue entry for spot x (0: none), the one whose position decides
\* the estimate of x
LastEntry(x) ==
    IF \E i \in DOMAIN queue : queue[i].spotId = x
    THEN CHOOSE i \in DOMAIN queue :
             /\ queue[i].spotId = x
             /\ \A j \in DOMAIN queue : queue[j].spotId = x => j <= i
    ELSE 0

RemoveAt(q, i) == SubSeq(q, 1, i - 1) \o SubSeq(q, i + 1, Len(q))

\* The step is the cancellation by u of the waiting spot s: only a
\* cancellation takes a waiting spot to idle, so the first conjuncts follow
\* from the last one
CancelQueued(u, s) ==
    /\ spots[s].status = "waiting"
    /\ spots'[s].status = "idle"
    /\ spots[s].userId = u
    /\ CancelCharging(u, s)

\* Duration plus cable move, in seconds, of the request waiting on spot s
Slot(s) == ChargeSeconds(spots[s].chargingTime) + CABLE_MOVING_TIME

C11_RoundTrip ==
    \A u \in Users, s \in SpotIds, c \in AnyChargingTime :
        RequestOutcome(u, s, c).code = 200
        => LET out == RequestOutcome(u, s, c)
               back == cancelCharging(out.spots, out.queue, out.timers, now, u, s)
           IN  back.spots = spots /\ back.queue = queue

\* C12: when the handlers overlap, with the reads and writes of one handler
\* interleaved with those of the others, still at most one spot holds the
\* cable (is Moving or Charging).
C12_SingleCableOverlap ==
    Cardinality({s \in SpotIds : spots[s].status = "charging"}) <= 1

\* C13: a queue entry is deleted in the step that promotes its spot to
\* Moving: in no reachable state does the queue hold an entry whose spot is
\* Moving.
C13_EntryRemovedAtPromotion ==
    \A i \in DOMAIN queue : ~Moving(spots, queue[i].spotId)

\* C14: a Moving spot leaves Moving only by its cancellation or, once
\* CABLE_MOVING_TIME has elapsed since its moveStartTime, by becoming Charging
\* with startTime = now: startTime is never earlier than moveStartTime plus
\* CABLE_MOVING_TIME.
C14_ChargeStartsOnArrival ==
    [][\A s \in SpotIds :
          (Moving(spots, s) /\ ~Moving(spots', s))
          => \/ spots'[s] = FreshSpot
             \/ /\ Charging(spots', s)
                /\ spots'[s].startTime = Some(now)
                /\ spots'[s].moveStartTime = spots[s].moveStartTime
                /\ now >= Val(spots[s].moveStartTime) + CABLE_MOVING_TIME]_vars

\* C15: the callback of a dispatch that has been cancelled changes no spot and
\* no queue entry when it runs, whatever has happened to the spot since.
C15_StaleCallbackNoOp ==
    [][\A tm \in BagToSet(timers) :
          (tm.cancelled /\ CableArrived(tm))
          => spots' = spots /\ queue' = queue]_vars

\* C16: a Charging spot becomes finished only when the time since its
\* startTime has reached its chargingTime, and finishing does not free the
\* cable: no waiting spot is promoted to Moving while a spot is finished.
C16_FinishKeepsCable ==
    [][/\ \A s \in SpotIds :
             (Charging(spots, s) /\ spots'[s].status = "finished")
             => now - Val(spots[s].startTime) >= ChargeSeconds(spots[s].chargingTime)
       /\ \A s \in SpotIds :
             (Waiting(spots, s) /\ Moving(spots', s))
             => \A x \in SpotIds : spots'[x].status # "finished"]_vars

QueuedRequests ==
    SelectSeq(SortByRequestTime(queue), LAMBDA e : Waiting(spots, e.spotId))

\* Remaining time, in seconds, of the spot that holds the cable: the rest of
\* the move plus the whole charge while Moving, the rest of the charge while
\* Charging, nothing when no spot holds the cable
HolderRemaining ==
    IF \E h \in SpotIds : Moving(spots, h)
    THEN LET h == CHOOSE x \in SpotIds : Moving(spots, x)
         IN  Max(0, CABLE_MOVING_TIME - (now - Val(spots[h].moveStartTime)))
             + ChargeSeconds(spots[h].chargingTime)
    ELSE IF \E h \in SpotIds : Charging(spots, h)
    THEN LET h == CHOOSE x \in SpotIds : Charging(spots, x)
         IN  Max(0, ChargeSeconds(spots[h].chargingTime) - (now - Val(spots[h].startTime)))
    ELSE 0

\* Duration plus one cable move of each of the first k entries of q
RECURSIVE SlotsAhead(_, _)
SlotsAhead(q, k) ==
    IF k = 0 THEN 0
    ELSE SlotsAhead(q, k - 1) + q[k].chargingTime * SecondsPerMinute + CABLE_MOVING_TIME

\* C18: after a recomputation the waitingTime of the k-th waiting request in
\* queue order is the remaining time of the spot that holds the cable plus,
\* for each of the k-1 waiting requests ahead of it, its chargingTime and one
\* cable move; the estimates do not decrease along the queue.
C18_EtaFormula ==
    LET after == updateWaitingTimes(spots, queue, now) IN
    /\ \A k \in DOMAIN QueuedRequests :
          after[QueuedRequests[k].spotId].waitingTime
            = Some(HolderRemaining + SlotsAhead(QueuedRequests, k - 1))
    /\ \A j, k \in DOMAIN QueuedRequests :
          j < k => Val(after[QueuedRequests[j].spotId].waitingTime)
                     <= Val(after[QueuedRequests[k].spotId].waitingTime)

\* C19: a recomputation of the estimates changes nothing but the waitingTime
\* of waiting spots that have a queue entry, and a second recomputation at
\* the same instant changes nothing any more.
C19_RecomputeIdempotent ==
    LET once  == updateWaitingTimes(spots, queue, now)
        twice == updateWaitingTimes(once, queue, now)
    IN  /\ twice = once
        /\ \A s \in SpotIds :
              once[s] # spots[s] =>
                /\ Waiting(spots, s)
                /\ \E i \in DOMAIN queue : queue[i].spotId = s
                /\ once[s] = [spots[s] EXCEPT !.waitingTime = once[s].waitingTime]

\* Two waiting spots whose stored estimates a recomputation would change
C19_Witness ==
    LET once == updateWaitingTimes(spots, queue, now) IN
    \E s1, s2 \in SpotIds :
        /\ s1 # s2
        /\ Waiting(spots, s1) /\ once[s1].waitingTime # spots[s1].waitingTime
        /\ Waiting(spots, s2) /\ once[s2].waitingTime # spots[s2].waitingTime

\* C20: in every reachable state the fields of each spot agree with its
\* status: a Moving spot has moveStartTime set and startTime unset, a
\* Charging or finished spot has startTime set, every Moving, Charging,
\* finished or waiting spot has a userId and a chargingTime, and an idle
\* spot has no userId, chargingTime, moveStartTime or startTime.
C20_FieldsAgree ==
    \A s \in SpotIds :
        /\ Moving(spots, s) => spots[s].moveStartTime # None /\ spots[s].startTime = None
        /\ (Charging(spots, s) \/ spots[s].status = "finished") => spots[s].startTime # None
        /\ spots[s].status \in {"charging", "finished", "waiting"} =>
              spots[s].userId # NoUser /\ spots[s].chargingTime # None
        /\ spots[s].status = "idle" =>
              /\ spots[s].userId = NoUser
              /\ spots[s].chargingTime = None
              /\ spots[s].moveStartTime = None
              /\ spots[s].startTime = None

\* A finished spot, a Moving spot and a waiting spot side by side, next to a
\* spot that was never requested
C20_Witness ==
    \E a, b, c, d \in SpotIds :
        /\ spots[a].status = "finished"
        /\ Moving(spots, b)
        /\ Waiting(spots, c)
        /\ spots[d] = FreshSpot

\* The cable is free and the first queue entry is not the entry of a waiting
\* spot, while a waiting spot has an entry behind it
HeadBlocks ==
    /\ queue # << >>
    /\ ChargingSpots(spots) = {}
    /\ ~Waiting(spots, NextInQueue(queue).spotId)
    /\ \E i \in DOMAIN queue : Waiting(spots, queue[i].spotId)

\* Every charge has a duration the charge check can complete
FiniteCharges == \A s \in SpotIds : spots[s].chargingTime # Some(0)

\* C21: while the timeouts and the intervals keep firing and every charge
\* has a finite duration, every waiting spot eventually leaves the status
\* waiting, by promotion to Moving or by cancellation, and no queue entry
\* stays for ever at the head of the queue in front of a waiting spot while
\* the cable is free.
C21_QueuedEventuallyPromoted ==
    []FiniteCharges =>
        /\ \A s \in SpotIds : Waiting(spots, s) ~> ~Waiting(spots, s)
        /\ ~<>[]HeadBlocks

\* C22: while the intervals keep firing, every spot that is Charging
\* eventually stops Charging, which happens when it is finished or
\* cancelled, every finished spot eventually becomes idle, and no spot keeps
\* the status charging for ever.
C22_ChargeEnds ==
    \A s \in SpotIds :
        /\ Charging(spots, s) ~> ~Charging(spots, s)
        /\ (spots[s].status = "finished") ~> (spots[s].status = "idle")
        /\ ~<>[](spots[s].status = "charging")

\* C23: in every reachable state the spot of every queue entry carries the
\* userId of the entry and is waiting or Moving, and every waiting spot has
\* exactly one queue entry.
C23_QueueMatchesSpots ==
    /\ \A i \in DOMAIN queue :
          /\ spots[queue[i].spotId].userId = queue[i].userId
          /\ Waiting(spots, queue[i].spotId) \/ Moving(spots, queue[i].spotId)
    /\ \A s \in SpotIds :
          Waiting(spots, s) =>
            Cardinality({i \in DOMAIN queue : queue[i].spotId = s}) = 1

====
